---- MODULE Spec2Model ----
(***************************************************************************)
(* Model of the BidirectionalInfiniteScroll React component                *)
(* (src/src/utils.ts).  The component keeps a two-page window over an      *)
(* in-memory dataset and moves it when one of two IntersectionObserver     *)
(* sentinels (top / bottom) becomes fully visible.                         *)
(*                                                                         *)
(* React state lives in the variables that carry the names of the          *)
(* useState hooks.  The observer callbacks are closures of the render in   *)
(* which the effect last ran; what they captured is kept in obs.  A render *)
(* (commit) and the flush of the passive effect are separate steps, as in  *)
(* React, so marker events can be handled by callbacks that closed over    *)
(* an older render.                                                        *)
(***************************************************************************)
EXTENDS Integers, Sequences, FiniteSets, TLC

\* ---- bounds of the model ------------------------------------------------
MaxLen == 3
MaxPageSize == 2
MaxPending == 2
MaxPage == 3

VARIABLES
  dataLen,            \* data.length (the dataset is [0, 1, ..., dataLen-1])
  pageSize,           \* the pageSize prop
  tracking,           \* the history variables this behaviour records
  visiblePages,       \* useState<number[]>([0, 1])
  isLoading,          \* useState(false)
  scrollToPage,       \* useState<number | null>(null): <<>> is null, <<p>> is p
  showTopOverlay,     \* useState(false)
  showBottomOverlay,  \* useState(false)
  scrollTop,          \* scrollWrapperRef.current.scrollTop as last set by the anchor ref
  mounted,            \* the component has not been unmounted
  observed,           \* the markers an attached observer observes
  vis,                \* environment: is the marker fully visible now
  entry,              \* IntersectionObserver entry queued per marker
  obs,                \* what the attached observers' callbacks closed over
  rendered,           \* the state the last commit rendered
  pending,            \* loads whose delay timer has not fired yet (FIFO)
  stayed,             \* history: marker fully visible ever since the last load start
  crossed,            \* history: markers whose queued entry is a crossing made while idle and eligible
  changes,            \* history: window changes since a load last started with none in flight
  lastDone,           \* history: outcome of the most recent load completion
  corrections,        \* history: scroll corrections since the last retreat that took effect
  trip                \* history: an advance (and the retreat right after it) and the window it left

vars == <<dataLen, pageSize, tracking, visiblePages, isLoading, scrollToPage,
          showTopOverlay, showBottomOverlay, scrollTop, mounted, observed,
          vis, entry, obs, rendered, pending, stayed, crossed, changes,
          lastDone, corrections, trip>>

\* what a behaviour never changes
config == <<dataLen, pageSize, tracking>>

\* the React state of the component
reactState == <<visiblePages, isLoading, scrollToPage, showTopOverlay,
                showBottomOverlay>>

\* the history variables; a behaviour leaves those it does not record as
\* they are
history == <<stayed, crossed, changes, lastDone, corrections, trip>>

Hist(h, new, old) == IF h \in tracking THEN new ELSE old

Edges == {"top", "bottom"}
NULL == <<>>

\* ---- numbers: Math.ceil(data.length / pageSize) can be Infinity or NaN ---
Num(n) == [k |-> "num", v |-> n]
Infinity == [k |-> "inf", v |-> 0]
NaN == [k |-> "nan", v |-> 0]

\* Math.ceil(len / ps) as JavaScript computes it, len >= 0
CeilDiv(len, ps) ==
  IF ps > 0 THEN Num((len + ps - 1) \div ps)
  ELSE IF ps = 0 THEN (IF len = 0 THEN NaN ELSE Infinity)
  ELSE Num(0 - (len \div (0 - ps)))

totalPages == CeilDiv(dataLen, pageSize)

\* x < t - 1 and x >= t for an integer x and a JavaScript number t
LtMinusOne(x, t) ==
  IF t.k = "nan" THEN FALSE ELSE IF t.k = "inf" THEN TRUE ELSE x < t.v - 1
GreaterEq(x, t) ==
  IF t.k = "nan" THEN FALSE ELSE IF t.k = "inf" THEN FALSE ELSE x >= t.v

canLoadNext(vp) == LtMinusOne(vp[Len(vp)], totalPages)
canLoadPrev(vp) == vp[1] > 0

\* ---- Array.prototype.slice on the dataset [0 .. dataLen-1] ---------------
SliceIndex(i, len) ==
  IF i < 0 THEN (IF len + i < 0 THEN 0 ELSE len + i)
  ELSE (IF i > len THEN len ELSE i)

Slice(len, start, end) ==
  LET from == SliceIndex(start, len)
      to == SliceIndex(end, len)
  IN  IF to > from THEN [j \in 1..(to - from) |-> from + j - 1] ELSE <<>>

M16_paginatedChunks(vp) ==
  [n \in 1..Len(vp) |->
     LET page == vp[n]
         start == page * pageSize
         end == start + pageSize + 1
     IN  [page |-> page, items |-> Slice(dataLen, start, end)]]

paginatedChunks(vp) ==
  [n \in 1..Len(vp) |->
     LET page == vp[n]
         start == page * pageSize
         end == start + pageSize
     IN  [page |-> page, items |-> Slice(dataLen, start, end)]]

\* ---- the functional updaters passed to setVisiblePages -------------------
M4_loadNextUpdater(prev) ==
  LET nextPage == prev[Len(prev)] + 1
  IN  IF GreaterEq(nextPage, totalPages) THEN prev ELSE <<prev[1], nextPage>>

M9_loadNextUpdater(prev) ==
  LET nextPage == prev[Len(prev)] + 1
  IN  IF GreaterEq(nextPage + 1, totalPages) THEN prev ELSE <<prev[2], nextPage>>

M11_loadNextUpdater(prev) ==
  LET nextPage == prev[Len(prev)] + 1
  IN  IF GreaterEq(nextPage - 1, totalPages) THEN prev ELSE <<prev[2], nextPage>>

loadNextUpdater(prev) ==
  LET nextPage == prev[Len(prev)] + 1
  IN  IF GreaterEq(nextPage, totalPages) THEN prev ELSE <<prev[2], nextPage>>

M15_loadPrevUpdater(prev) ==
  LET prevPage == prev[1] - 1
  IN  IF prevPage < 0 THEN prev ELSE <<prevPage, prev[2]>>

M5_loadPrevUpdater(prev) ==
  LET prevPage == prev[1] - 1
  IN  <<prevPage, prev[1]>>

loadPrevUpdater(prev) ==
  LET prevPage == prev[1] - 1
  IN  IF prevPage < 0 THEN prev ELSE <<prevPage, prev[1]>>

M20_loadPrevScrollTo(prev, cur) ==
  LET prevPage == prev[1] - 1
  IN  IF prevPage < 0 THEN cur ELSE <<prev[2]>>

M17_loadPrevScrollTo(prev, cur) ==
  <<prev[1] - 1 + 1>>

M10_loadPrevScrollTo(prev, cur) ==
  LET prevPage == prev[1] - 1
  IN  IF prevPage < 0 THEN cur ELSE <<prevPage>>

\* the setScrollToPage call inside the loadPrevPage updater
loadPrevScrollTo(prev, cur) ==
  LET prevPage == prev[1] - 1
  IN  IF prevPage < 0 THEN cur ELSE <<prevPage + 1>>

\* ---- rendering -----------------------------------------------------------
Snapshot ==
  [isLoading |-> isLoading, visiblePages |-> visiblePages,
   scrollToPage |-> scrollToPage]

\* the dependency array [isLoading, canLoadNext, canLoadPrev] of a render
Deps(r) ==
  [isLoading |-> r.isLoading,
   canLoadNext |-> canLoadNext(r.visiblePages),
   canLoadPrev |-> canLoadPrev(r.visiblePages)]

EntryOf(visible) == IF visible THEN "in" ELSE "out"

M19_showOverlay(isAt) ==
  isAt

\* setShowTopOverlay(!isAtTop) / setShowBottomOverlay(!isAtBottom)
showOverlay(isAt) ==
  ~isAt

\* ---- layout: rows of height 1, the pages stacked below the wrapper's top --
WrapperOffsetTop == 1

RECURSIVE HeightBefore(_, _)
HeightBefore(chunks, n) ==
  IF n <= 1 THEN 0
  ELSE HeightBefore(chunks, n - 1) + Len(chunks[n - 1].items)

\* el.offsetTop and el.clientHeight of the element rendered for chunk n
ElOffsetTop(chunks, n) == WrapperOffsetTop + HeightBefore(chunks, n)
ElClientHeight(chunks, n) == Len(chunks[n].items)

\* ---- the anchor ref callback ---------------------------------------------
anchorScrollTop(elOffsetTop, wrapperOffsetTop, elClientHeight) ==
  elOffsetTop - wrapperOffsetTop + elClientHeight

M14_anchorScrollToPage(el, cur) ==
  cur

\* setScrollToPage(null) once the element is there
anchorScrollToPage(el, cur) ==
  IF el THEN NULL ELSE cur

\* ---- the effect's cleanup: the markers still observed after it -----------
M18_cleanup ==
  {"bottom"}

\* disconnect() of both observers
cleanup ==
  {}

InitState ==
  /\ visiblePages = <<0, 1>>
  /\ isLoading = FALSE
  /\ scrollToPage = NULL
  /\ showTopOverlay = FALSE
  /\ showBottomOverlay = FALSE
  /\ scrollTop = 0
  /\ mounted = TRUE
  /\ observed = Edges
  /\ vis \in [Edges -> BOOLEAN]
  /\ rendered = Snapshot
  /\ obs = Deps(rendered)
  /\ entry = [e \in Edges |-> EntryOf(vis[e])]
  /\ pending = <<>>
  /\ stayed = [e \in Edges |-> FALSE]
  /\ crossed = {}
  /\ changes = 0
  /\ lastDone = "none"
  /\ corrections = 0
  /\ trip = <<>>

\* a valid configuration: pageSize >= 1
ValidConfig ==
  /\ dataLen \in 0..MaxLen
  /\ pageSize \in 1..MaxPageSize

InitTracking(h) ==
  /\ ValidConfig
  /\ tracking = h
  /\ InitState

Init == InitTracking({"lastDone", "trip"})

InitRecross == InitTracking({"stayed", "changes"})

InitAnchor == InitTracking({"corrections", "lastDone"})

InitCrossing == InitTracking({"crossed"})

InitNoHistory == InitTracking({})

\* a dataset one page longer than any of ValidConfig
InitLong ==
  /\ dataLen = MaxLen + 1
  /\ pageSize = 1
  /\ tracking = {}
  /\ InitState

\* the configurations with pageSize <= 0, which the props type admits
InitInvalidConfig ==
  /\ dataLen \in 0..MaxLen
  /\ pageSize \in (0 - MaxPageSize)..0
  /\ tracking = {}
  /\ InitState

\* ---- the environment: a marker enters or leaves full visibility ---------
Scroll(e) ==
  /\ entry[e] = "none"
  /\ vis' = [vis EXCEPT ![e] = ~vis[e]]
  /\ entry' = IF e \in observed
              THEN [entry EXCEPT ![e] = EntryOf(~vis[e])]
              ELSE entry
  /\ stayed' = Hist("stayed", [stayed EXCEPT ![e] = FALSE], stayed)
  /\ crossed' = Hist("crossed",
                     IF /\ ~vis[e] /\ e \in observed /\ mounted
                        /\ ~isLoading /\ pending = <<>>
                        /\ visiblePages # <<0, 1>>
                        /\ IF e = "top" THEN canLoadPrev(visiblePages)
                                        ELSE canLoadNext(visiblePages)
                     THEN crossed \cup {e}
                     ELSE crossed \ {e}, crossed)
  /\ UNCHANGED <<config, reactState, scrollTop, mounted, observed,
                 obs, rendered, pending, changes, lastDone, corrections, trip>>

\* ---- the synchronous part of loadNextPage / loadPrevPage -----------------
\* (isLoading of the closure is obs.isLoading: the effect re-runs whenever
\*  isLoading changes, so callback and load function are of one render;
\*  React ignores a state update of an unmounted component)
StartLoad(dir) ==
  /\ Len(pending) < MaxPending
  /\ totalPages.k = "inf" => visiblePages[Len(visiblePages)] < MaxPage
  /\ isLoading' = IF mounted THEN TRUE ELSE isLoading
  /\ pending' = Append(pending, dir)
  /\ stayed' = Hist("stayed", [e \in Edges |-> vis[e]], stayed)
  /\ changes' = Hist("changes", IF pending = <<>> THEN 0 ELSE changes, changes)
  /\ crossed' = Hist("crossed", {}, crossed)

NoLoad(e) ==
  /\ crossed' = Hist("crossed", crossed \ {e}, crossed)
  /\ UNCHANGED <<isLoading, pending, stayed, changes>>

topObserver ==
  /\ entry["top"] # "none"
  /\ LET isAtTop == (entry["top"] = "in")
     IN  /\ showTopOverlay' = IF mounted THEN showOverlay(isAtTop) ELSE showTopOverlay
         /\ IF isAtTop /\ ~obs.isLoading /\ obs.canLoadPrev
            THEN StartLoad("prev")
            ELSE NoLoad("top")
  /\ entry' = [entry EXCEPT !["top"] = "none"]
  /\ UNCHANGED <<config, visiblePages, scrollToPage,
                 showBottomOverlay, scrollTop, mounted, observed, vis, obs,
                 rendered, lastDone, corrections, trip>>

bottomObserver ==
  /\ entry["bottom"] # "none"
  /\ LET isAtBottom == (entry["bottom"] = "in")
     IN  /\ showBottomOverlay' = IF mounted THEN showOverlay(isAtBottom) ELSE showBottomOverlay
         /\ IF isAtBottom /\ ~obs.isLoading /\ obs.canLoadNext
            THEN StartLoad("next")
            ELSE NoLoad("bottom")
  /\ entry' = [entry EXCEPT !["bottom"] = "none"]
  /\ UNCHANGED <<config, visiblePages, scrollToPage,
                 showTopOverlay, scrollTop, mounted, observed, vis, obs,
                 rendered, lastDone, corrections, trip>>

\* ---- the continuation of a load after its delay timer --------------------
\* the history counter saturates at MaxPending
Count(moved) ==
  IF moved /\ changes < MaxPending THEN changes + 1 ELSE changes

M12_isLoadingAfterLoad(prev, next) ==
  prev = next

\* setIsLoading(false), whatever the updater returned
isLoadingAfterLoad(prev, next) ==
  FALSE

\* the timer of a load fires after the component was unmounted: React
\* ignores the state updates
LoadAfterUnmount ==
  /\ ~mounted
  /\ UNCHANGED <<reactState, changes, lastDone, corrections, trip>>

loadNextPage ==
  /\ pending # <<>>
  /\ Head(pending) = "next"
  /\ pending' = Tail(pending)
  /\ \/ /\ mounted
        /\ visiblePages' = loadNextUpdater(visiblePages)
        /\ isLoading' = isLoadingAfterLoad(visiblePages, visiblePages')
        /\ changes' = Hist("changes", Count(visiblePages' # visiblePages), changes)
        /\ lastDone' = Hist("lastDone", IF visiblePages' # visiblePages
                            THEN "next-moved" ELSE "next-noop", lastDone)
        /\ trip' = Hist("trip", IF visiblePages' # visiblePages
                        THEN <<"advanced", visiblePages>> ELSE <<>>, trip)
        /\ UNCHANGED <<scrollToPage, showTopOverlay, showBottomOverlay,
                       corrections>>
     \/ LoadAfterUnmount
  /\ UNCHANGED <<config, scrollTop, mounted, observed, vis, entry,
                 obs, rendered, stayed, crossed>>

loadPrevPage ==
  /\ pending # <<>>
  /\ Head(pending) = "prev"
  /\ pending' = Tail(pending)
  /\ \/ /\ mounted
        /\ visiblePages' = loadPrevUpdater(visiblePages)
        /\ scrollToPage' = loadPrevScrollTo(visiblePages, scrollToPage)
        /\ isLoading' = isLoadingAfterLoad(visiblePages, visiblePages')
        /\ changes' = Hist("changes", Count(visiblePages' # visiblePages), changes)
        /\ lastDone' = Hist("lastDone", IF visiblePages' # visiblePages
                            THEN "prev-moved" ELSE "prev-noop", lastDone)
        /\ corrections' = Hist("corrections", IF visiblePages' # visiblePages
                               THEN 0 ELSE corrections, corrections)
        /\ trip' = Hist("trip", IF visiblePages' # visiblePages /\ trip # <<>>
                           /\ trip[1] = "advanced"
                        THEN <<"returned", trip[2]>> ELSE <<>>, trip)
        /\ UNCHANGED <<showTopOverlay, showBottomOverlay>>
     \/ LoadAfterUnmount
  /\ UNCHANGED <<config, scrollTop, mounted, observed, vis, entry,
                 obs, rendered, stayed, crossed>>

\* ---- a commit: the pages are rendered, the anchor ref callback runs ------
\* attach: whether renderPage put the ref it was given on a mounted element
Render ==
  /\ mounted
  /\ Deps(rendered) = obs
  /\ Snapshot # rendered \/ scrollToPage # NULL
  /\ rendered' = Snapshot
  /\ \E attach \in BOOLEAN :
       LET chunks == paginatedChunks(visiblePages)
           targets == {n \in 1..Len(chunks) : <<chunks[n].page>> = scrollToPage}
       IN  IF targets # {} /\ attach
           THEN LET n == CHOOSE m \in targets : TRUE
                IN  /\ scrollTop' = anchorScrollTop(ElOffsetTop(chunks, n),
                                                    WrapperOffsetTop,
                                                    ElClientHeight(chunks, n))
                    /\ scrollToPage' = anchorScrollToPage(TRUE, scrollToPage)
                    /\ corrections' = Hist("corrections", IF corrections < 2
                                            THEN corrections + 1
                                            ELSE corrections, corrections)
           ELSE UNCHANGED <<scrollTop, scrollToPage, corrections>>
  /\ UNCHANGED <<config, visiblePages, isLoading, showTopOverlay,
                 showBottomOverlay, mounted, observed, vis, entry, obs,
                 pending, stayed, crossed, changes, lastDone, trip>>

\* ---- the passive effect: disconnect, create and observe anew -------------
\* observe() queues an entry that reports the marker's current visibility
useEffect ==
  /\ mounted
  /\ Deps(rendered) # obs
  /\ obs' = Deps(rendered)
  /\ observed' = Edges
  /\ entry' = [e \in Edges |-> EntryOf(vis[e])]
  /\ crossed' = Hist("crossed", {}, crossed)
  /\ UNCHANGED <<config, reactState, scrollTop, mounted, vis,
                 rendered, pending, stayed, changes, lastDone, corrections,
                 trip>>

\* ---- teardown: the effect's cleanup disconnects both observers -----------
Unmount ==
  /\ mounted
  /\ mounted' = FALSE
  /\ observed' = cleanup
  /\ entry' = [e \in Edges |-> IF e \in cleanup THEN entry[e] ELSE "none"]
  /\ crossed' = Hist("crossed", {}, crossed)
  /\ UNCHANGED <<config, reactState, scrollTop, vis, obs, rendered,
                 pending, stayed, changes, lastDone, corrections, trip>>

Next ==
  \/ \E e \in Edges : Scroll(e)
  \/ topObserver
  \/ bottomObserver
  \/ loadNextPage
  \/ loadPrevPage
  \/ Render
  \/ useEffect

\* the component while it is mounted
Spec == Init /\ [][Next]_vars

\* the same component, other history variables recorded
SpecRecross == InitRecross /\ [][Next]_vars

SpecCrossing == InitCrossing /\ [][Next]_vars

SpecAnchor == InitAnchor /\ [][Next]_vars

SpecInvalidConfig == InitInvalidConfig /\ [][Next]_vars

SpecLong == InitLong /\ [][Next]_vars

\* What the scheduling guarantees: a timer that was set fires, React renders
\* a scheduled update and flushes its effects, and a queued observer entry
\* is delivered.  Scrolling and unmounting are up to the environment.
TimerFairness ==
  /\ WF_vars(loadNextPage)
  /\ WF_vars(loadPrevPage)

Fairness ==
  /\ TimerFairness
  /\ WF_vars(Render)
  /\ WF_vars(useEffect)
  /\ WF_vars(topObserver)
  /\ WF_vars(bottomObserver)

SpecFair == InitNoHistory /\ [][Next]_vars /\ Fairness

\* the component and its teardown
NextTeardown ==
  \/ Next
  \/ Unmount

SpecTeardown == InitNoHistory /\ [][NextTeardown]_vars /\ TimerFairness

\* ---- shared vocabulary of the properties ---------------------------------
Dir(e) == IF e = "top" THEN "prev" ELSE "next"

StartsLoad(e) == pending' = Append(pending, Dir(e))

Eligible(e) ==
  IF e = "top" THEN canLoadPrev(visiblePages) ELSE canLoadNext(visiblePages)

\* the observer callback of marker e runs
FiresMarker(e) == mounted' /\ entry[e] # "none" /\ entry'[e] = "none"

CompletesLoad(dir) ==
  /\ pending # <<>>
  /\ Head(pending) = dir
  /\ pending' = Tail(pending)

TypeOK ==
  /\ dataLen \in 0..MaxLen
  /\ Len(visiblePages) = 2
  /\ isLoading \in BOOLEAN
  /\ Len(pending) <= MaxPending
  /\ changes \in 0..MaxPending

ValidPages == totalPages.k = "num" /\ totalPages.v >= 2

\* ---- C1 ------------------------------------------------------------------
\* C1: at most one load (loadPrevPage or loadNextPage) has started its delay
\* and not yet completed, in every reachable state.  The code violates it:
\* both observer callbacks of one effect run closed over isLoading = false.
C1_AtMostOneInFlight == Len(pending) <= 1

C3_NoLoadWithoutRecrossing ==
  [][\A e \in Edges : StartsLoad(e) => ~stayed[e]]_vars

\* ---- C4 ------------------------------------------------------------------
\* C4: for totalPages >= 2 the visible window is a pair (low, high) with
\* high = low + 1 in every reachable state.
C4_WindowIsAdjacentPair ==
  ValidPages =>
    /\ Len(visiblePages) = 2
    /\ visiblePages[2] = visiblePages[1] + 1

\* a load has moved the window while an overlapping one is still in flight
C4_Witness ==
  /\ ValidPages
  /\ lastDone \in {"next-moved", "prev-moved"}
  /\ Len(pending) = 1
  /\ visiblePages # <<0, 1>>

\* ---- C5 ------------------------------------------------------------------
\* C5: for totalPages >= 2 both indices of the window are valid pages in
\* every reachable state: 0 <= low and high <= totalPages - 1, also when
\* loads overlap; the window starts at (0, 1) (InitState).
C5_WindowInBounds ==
  ValidPages =>
    /\ 0 <= visiblePages[1]
    /\ visiblePages[2] <= totalPages.v - 1

\* a load completed after the window had already moved to an end of the
\* dataset, and was absorbed there
C5_Witness ==
  /\ ValidPages
  /\ lastDone = "next-noop"
  /\ visiblePages[1] >= 1
  /\ visiblePages[2] = totalPages.v - 1

\* ---- C6 ------------------------------------------------------------------
\* C6: for every dataset length, the empty dataset and a dataset shorter than
\* one page included, no page index greater than totalPages - 1 is in the
\* slice list given to renderPage.  The code always renders pages 0 and 1.
C6_OnlyValidPagesRendered ==
  LET chunks == paginatedChunks(visiblePages)
  IN  \A n \in 1..Len(chunks) : chunks[n].page <= totalPages.v - 1

\* ---- C7 ------------------------------------------------------------------
\* C7: with pageSize <= 0 the controller fails fast and never starts a load.
\* The code has no check of pageSize: Math.ceil(n / 0) is Infinity and the
\* bottom marker starts loads.
C7_InvalidConfigNeverLoads ==
  pageSize <= 0 => (~isLoading /\ pending = <<>>)

\* ---- C8 ------------------------------------------------------------------
\* C8: a load starts only on a marker event that reports the marker fully
\* visible while Load State is false and the matching direction is eligible
\* (and so never when totalPages <= 1).
C8_LoadStartsOnlyWhenIdleAndEligible ==
  [][\A e \in Edges :
       StartsLoad(e) => (entry[e] = "in" /\ ~isLoading /\ Eligible(e))]_vars

\* ---- C9 ------------------------------------------------------------------
\* C9: when a forward load completes (on the mounted component) in a state
\* where canAdvance holds, the window (low, high) becomes (high, high + 1).
C9_AdvanceMovesByOnePage ==
  [][(mounted /\ CompletesLoad("next") /\ canLoadNext(visiblePages)) =>
        visiblePages' = <<visiblePages[2], visiblePages[2] + 1>>]_vars

\* a forward load has completed and moved the window off (0, 1)
C9_Witness ==
  /\ lastDone = "next-moved"
  /\ visiblePages[1] >= 1
  /\ visiblePages[2] = visiblePages[1] + 1

\* ---- C10 -----------------------------------------------------------------
\* C10: when a backward load completes (on the mounted component) in a state
\* where canRetreat holds, the window (low, high) becomes (low - 1, low) and Scroll Anchor Target is
\* set to the old low, the second page of the new pair.
C10_RetreatMovesByOnePageAndAnchors ==
  [][(mounted /\ CompletesLoad("prev") /\ canLoadPrev(visiblePages)) =>
        /\ visiblePages' = <<visiblePages[1] - 1, visiblePages[1]>>
        /\ scrollToPage' = <<visiblePages[1]>>
        /\ scrollToPage' = <<visiblePages'[2]>>]_vars

\* the retreat from (1, 2): window (0, 1) with target 1
C10_Witness ==
  /\ lastDone = "prev-moved"
  /\ visiblePages = <<0, 1>>
  /\ scrollToPage = <<1>>

\* ---- C12 -----------------------------------------------------------------
\* C12: every load that starts eventually completes and sets Load State back
\* to false, also when the transition turned out to be a no-op at the
\* bounds: on the mounted component Load State never stays true forever.
C12_LoadStateEventuallyFalse ==
  (mounted /\ isLoading) ~> (~isLoading \/ ~mounted)

\* ---- C11 -----------------------------------------------------------------
\* C11: at the ends of the dataset transitions are no-ops: with
\* high = totalPages - 1 no bottom-marker event and no completing forward
\* load changes the window, and with low = 0 no top-marker event and no
\* completing backward load changes the window or Scroll Anchor Target.
C11_NoOpAtTheEnds ==
  [][/\ (/\ visiblePages[2] = totalPages.v - 1
         /\ (FiresMarker("bottom") \/ CompletesLoad("next")))
        => visiblePages' = visiblePages
     /\ (/\ visiblePages[1] = 0
         /\ (FiresMarker("top") \/ CompletesLoad("prev")))
        => (visiblePages' = visiblePages /\ scrollToPage' = scrollToPage)]_vars

\* a backward load has completed at low = 0 and was absorbed
C11_Witness ==
  /\ lastDone = "prev-noop"
  /\ visiblePages[1] = 0
  /\ ~isLoading

\* a load has run to completion and Load State is false again
C12_Witness ==
  /\ mounted
  /\ ~isLoading
  /\ pending = <<>>
  /\ visiblePages # <<0, 1>>

C14_CorrectionOncePerRetreat ==
  [][(corrections' # corrections /\ corrections' # 0) =>
       LET chunks == paginatedChunks(visiblePages)
       IN  /\ corrections = 0
           /\ scrollToPage # NULL
           /\ \E n \in 1..Len(chunks) :
                /\ <<chunks[n].page>> = scrollToPage
                /\ scrollTop' = HeightBefore(chunks, n) + Len(chunks[n].items)
           /\ scrollToPage' = NULL]_vars

\* the correction of a retreat has been applied and the target cleared
C14_Witness ==
  /\ corrections = 1
  /\ lastDone = "prev-moved"
  /\ scrollToPage = NULL
  /\ scrollTop > 0

\* ---- C15 -----------------------------------------------------------------
\* C15: advance followed by retreat, when both are legal, restores the
\* original window: after a forward transition that took effect from window w
\* and a backward transition that took effect right after it, the window is
\* w again.
C15_AdvanceThenRetreatRestores ==
  (trip # <<>> /\ trip[1] = "returned") => visiblePages = trip[2]

\* an advance and then a retreat have both taken effect
C15_Witness ==
  /\ trip # <<>>
  /\ trip[1] = "returned"
  /\ lastDone = "prev-moved"

\* ---- C16 -----------------------------------------------------------------
\* the indices of the dataset that page i covers
PageRange(len, ps, i) ==
  {j \in 0..(len - 1) : i * ps <= j /\ j < i * ps + ps}

\* items is the run from, from+1, ... of count indices
IsRange(items, from, count) ==
  /\ Len(items) = count
  /\ \A j \in 1..count : items[j] = from + j - 1

\* the worked example: 1000 items, pageSize 20
C16_Example ==
  /\ CeilDiv(1000, 20) = Num(50)
  /\ IsRange(Slice(1000, 0, 20) \o Slice(1000, 20, 40), 0, 40)
  /\ IsRange(Slice(1000, 20, 40) \o Slice(1000, 40, 60), 20, 40)

\* C16: the items handed to renderPage for a visible page i are exactly
\* dataset[i*pageSize .. i*pageSize+pageSize) clipped to the dataset length;
\* only the final page may be shorter than pageSize; the mounted items are
\* one contiguous range of at most 2*pageSize items.  For 1000 items and
\* pageSize 20 there are 50 pages, pages (0,1) hold items 0..39 and pages
\* (1,2) hold items 20..59.
C16_ItemsOfVisiblePages ==
  LET chunks == paginatedChunks(visiblePages)
      mounted_items == chunks[1].items \o chunks[2].items
  IN  /\ Len(chunks) = 2
      /\ \A n \in 1..2 :
           LET i == visiblePages[n]
               items == chunks[n].items
           IN  /\ chunks[n].page = i
               /\ {items[j] : j \in 1..Len(items)} = PageRange(dataLen, pageSize, i)
               /\ \A j \in 1..(Len(items) - 1) : items[j + 1] = items[j] + 1
               /\ i < totalPages.v - 1 => Len(items) = pageSize
      /\ Len(mounted_items) <= 2 * pageSize
      /\ \A j \in 1..(Len(mounted_items) - 1) :
           mounted_items[j + 1] = mounted_items[j] + 1
      /\ C16_Example

\* a forward load has completed and a full page that is not the first one
\* is handed to renderPage
C16_Witness ==
  /\ lastDone = "next-moved"
  /\ visiblePages[1] >= 1
  /\ LET items == paginatedChunks(visiblePages)[1].items
     IN  IsRange(items, visiblePages[1] * pageSize, pageSize)

\* ---- C17 -----------------------------------------------------------------
\* the anchor ref callback runs on the page Scroll Anchor Target names
AnchorCorrection ==
  /\ scrollToPage # NULL
  /\ visiblePages' = visiblePages
  /\ pending' = pending
  /\ entry' = entry
  /\ rendered' = Snapshot
  /\ \E n \in 1..Len(visiblePages) : <<visiblePages[n]>> = scrollToPage

\* C17: Scroll Anchor Target is null initially, is set only by a backward
\* transition that takes effect and is cleared only by the anchor
\* correction; a forward transition, a no-op transition, a marker event and
\* a dropped trigger leave it unchanged.
C17_AnchorTargetFrame ==
  /\ scrollToPage = NULL
  /\ [][/\ scrollToPage' # scrollToPage =>
             \/ /\ CompletesLoad("prev")
                /\ visiblePages' # visiblePages
                /\ scrollToPage' = <<visiblePages[1]>>
             \/ /\ AnchorCorrection
                /\ scrollToPage' = NULL
        /\ (\/ CompletesLoad("next")
            \/ CompletesLoad("prev") /\ visiblePages' = visiblePages
            \/ \E e \in Edges : FiresMarker(e))
             => scrollToPage' = scrollToPage]_vars

\* a retreat has set the target and a later forward load has left it alone
C17_Witness ==
  /\ scrollToPage # NULL
  /\ lastDone \in {"next-moved", "next-noop"}

\* ---- C18 -----------------------------------------------------------------
\* C18: after teardown no marker event starts a load (both sensors are
\* detached: no entry is queued or delivered and no load is scheduled),
\* while a delay that was already scheduled still runs to completion and its
\* state update has no effect on any live state.
C18_TeardownDetachesSensors ==
  /\ [](~mounted => (observed = {} /\ \A e \in Edges : entry[e] = "none"))
  /\ [][~mounted => /\ Len(pending') <= Len(pending)
                    /\ UNCHANGED <<reactState, scrollTop, rendered, obs>>]_vars
  /\ ~mounted ~> (pending = <<>>)

\* a load started before the teardown has run to completion after it and
\* Load State is what it was at the teardown
C18_Witness ==
  /\ ~mounted
  /\ pending = <<>>
  /\ isLoading
  /\ visiblePages = <<0, 1>>
  /\ ValidPages /\ totalPages.v >= 3

\* ---- C19 -----------------------------------------------------------------
\* C19: on every marker intersection change the matching edge-hidden flag is
\* set to the negation of the marker's full visibility, whether Load State
\* is true or false and whether or not a load is started; the flag update by
\* itself changes neither the window, Load State nor Scroll Anchor Target.
C19_FlagFollowsVisibility ==
  [][\A e \in Edges :
       FiresMarker(e) =>
         /\ e = "top" => (showTopOverlay' = (entry[e] # "in")
                          /\ showBottomOverlay' = showBottomOverlay)
         /\ e = "bottom" => (showBottomOverlay' = (entry[e] # "in")
                             /\ showTopOverlay' = showTopOverlay)
         /\ visiblePages' = visiblePages
         /\ scrollToPage' = scrollToPage
         /\ isLoading' # isLoading => StartsLoad(e)]_vars

\* the top flag was raised by an event that arrived while a load was running
C19_Witness ==
  /\ showTopOverlay
  /\ ~showBottomOverlay
  /\ isLoading
  /\ entry["top"] = "none"
  /\ obs.isLoading

\* ---- C20 -----------------------------------------------------------------
\* C20: whenever Scroll Anchor Target is non-null it is one of the two pages
\* of the current visible window, in every reachable state.  (The statement
\* as the claim makes it: two forward transitions that complete before the
\* correction is consumed move the window past the target.)
C20_TargetInWindow ==
  scrollToPage # NULL =>
    scrollToPage[1] \in {visiblePages[1], visiblePages[2]}

\* C20, amended: whenever Scroll Anchor Target is non-null it is a page from
\* 1 up to the high page of the window: the high page when the retreat sets
\* it, and a page of the window or one the window has advanced past
\* afterwards.
C20_TargetNotAboveWindow ==
  scrollToPage # NULL =>
    /\ 1 <= scrollToPage[1]
    /\ scrollToPage[1] <= visiblePages[2]

\* the window has advanced past a target that was never consumed
C20_Witness ==
  /\ scrollToPage # NULL
  /\ scrollToPage[1] < visiblePages[1]
  /\ ~isLoading

====
